---- MODULE Spec2Model ----
(***************************************************************************)
(* ChatDataset.__iter__ (src/src/nanotron/data/chat_dataset.py): the       *)
(* padding-free packing loop, the non-packed alignment-padding path and    *)
(* the re-loop of the streaming dataset on exhaustion.                     *)
(*                                                                         *)
(* The tokenizer (ChatTokenizer) and the streaming dataset are external:   *)
(* the dataset is modelled as the sequence of tokenized samples one pass   *)
(* over it delivers.  The debug cross-check against apply_chat_template    *)
(* (lines 104-106) compares two external tokenizers and is not modelled.   *)
(* create_labels / create_position_ids live in nanotron.data.collator,     *)
(* which is not part of the sources at hand; they are modelled from the    *)
(* specification's LabelPolicy / PositionPolicy sections.                  *)
(***************************************************************************)
EXTENDS Integers, Sequences, FiniteSets, TLC

\* ---------------------------------------------------------------- bounds
MaxSrc == 3          \* longest dataset (records per pass)
MaxPulls == 6        \* samples pulled by one run of __iter__
MaxRestarts == 2     \* re-loops of the dataset by one run of __iter__

\* ------------------------------------------------------ input domains
pad_token_id == 0

\* Tokenized samples as ChatTokenizer hands them over (tokens, is_completition).
\* Token values identify the sample they come from (tens digit).  Samples 5
\* and 6 break the tokenizer's contract len(tokens) == len(is_completition).
Catalog ==
  { [tokens |-> <<>>,                    is_completition |-> <<>>],
    [tokens |-> <<11>>,                  is_completition |-> <<TRUE>>],
    [tokens |-> <<21, 22>>,              is_completition |-> <<FALSE, TRUE>>],
    [tokens |-> <<31, 32, 33, 34, 35>>,  is_completition |-> <<FALSE, FALSE, TRUE, TRUE, TRUE>>],
    [tokens |-> <<41, 42>>,              is_completition |-> <<TRUE>>],
    [tokens |-> <<51>>,                  is_completition |-> <<FALSE, TRUE>>] }

Datasets == UNION { [1..n -> Catalog] : n \in 0..MaxSrc }

SequenceLengths == {2, 3}
SpRanksSizes == {1, 2}
LabelPolicies == {"completions_only", "full"}
PositionPolicies == {"reset", "dummy"}

\* ------------------------------------------------------------- helpers
RECURSIVE Sum(_)
Sum(xs) == IF xs = <<>> THEN 0 ELSE Head(xs) + Sum(Tail(xs))

\* Python xs[:-n] for n >= 0: -0 is 0, so xs[:-0] is xs[:0], the empty list.
SliceDropLast(xs, n) ==
  IF n = 0 THEN <<>>
  ELSE IF n >= Len(xs) THEN <<>>
  ELSE SubSeq(xs, 1, Len(xs) - n)

\* [1 if x else 0 for x in flags]
AsInts(flags) == [i \in 1..Len(flags) |-> IF flags[i] THEN 1 ELSE 0]

Repeat(x, n) == [i \in 1..n |-> x]

\* self.sp_chunks = sp_ranks_size * 2 if sp_ranks_size > 1 else 1
SpChunks(ranks) == IF ranks > 1 THEN ranks * 2 ELSE 1

\* LabelPolicy: CompletionsOnly keeps the completion flags, Full trains on
\* every position; both return one entry per token.
BuildLabels(policy, toks, flags) ==
  IF policy = "completions_only" THEN flags ELSE Repeat(TRUE, Len(toks))

RECURSIVE ResetPositions(_)
ResetPositions(lengths) ==
  IF lengths = <<>> THEN <<>>
  ELSE [i \in 1..Head(lengths) |-> i - 1] \o ResetPositions(Tail(lengths))

\* PositionPolicy: Reset-at-boundary restarts at 0 at every sample start,
\* Continuous counts over the whole window.
BuildPositionIds(policy, lengths, seqlen) ==
  IF policy = "reset" THEN ResetPositions(lengths)
  ELSE [i \in 1..Sum(lengths) |-> i - 1]

Nothing == [kind |-> "none"]

\* ------------------------------------------------------------- state
VARIABLES
  dataset,                 \* self.dataset, tokenized: one pass over the source
  sequence_length,         \* self.sequence_length
  pack_samples,            \* self.pack_samples
  sp_ranks_size,           \* constructor argument sp_ranks_size
  sp_chunks,               \* self.sp_chunks
  create_labels,           \* self.create_labels
  create_position_ids,     \* self.create_position_ids
  pc,                      \* "constructed", "run" or "AssertionError"
  it,                      \* records the current iter(self.dataset) has delivered
  restarts,                \* number of "dataset is being re-looped" messages
  pulls,                   \* samples pulled since __iter__ started
  tokens,                  \* local tokens (padded in place by the non-packed branch)
  is_completition,         \* local is_completition (relabelled and padded likewise)
  buffer_tokens,
  buffer_is_completition,
  buffer_lengths,
  sample_lengths,          \* local sample_lengths of the last overflow
  num_samples,
  out,                     \* what the last pull yielded, Nothing if it yielded nothing
  yielded,                 \* everything yielded so far, in order
  pulled,                  \* the samples pulled so far, in order
  triggers,                \* for each window emitted, the number of the pull that emitted it
  other                    \* a second, independent call of __iter__ on the same object

config == <<dataset, sequence_length, pack_samples, sp_ranks_size, sp_chunks,
            create_labels, create_position_ids>>
locals == <<pc, it, restarts, pulls, tokens, is_completition, buffer_tokens,
            buffer_is_completition, buffer_lengths, sample_lengths, num_samples,
            out, yielded, pulled, triggers>>
vars == <<config, locals, other>>

\* ------------------------------------------------------ packing path
\* lines 93-96: the buffers are locals of __iter__, fresh on every call
IterLocalsLeftover ==
  [buffer_tokens |-> buffer_tokens,
   buffer_is_completition |-> buffer_is_completition,
   buffer_lengths |-> buffer_lengths,
   num_samples |-> num_samples]

IterLocals ==
  [buffer_tokens |-> <<>>,
   buffer_is_completition |-> <<>>,
   buffer_lengths |-> <<>>,
   num_samples |-> 0]

\* lines 109-111
AppendSampleNoLength(b, toks, flags) ==
  [buffer_tokens |-> b.buffer_tokens \o toks,
   buffer_is_completition |-> b.buffer_is_completition \o flags,
   buffer_lengths |-> b.buffer_lengths]

AppendSample(b, toks, flags) ==
  [buffer_tokens |-> b.buffer_tokens \o toks,
   buffer_is_completition |-> b.buffer_is_completition \o flags,
   buffer_lengths |-> Append(b.buffer_lengths, Len(toks))]

\* line 113
OverflowBeforeAppend(b, seqlen) ==
  Len(b.buffer_tokens) - b.buffer_lengths[Len(b.buffer_lengths)] > 1 + seqlen

OverflowOffByOne(b, seqlen) == Len(b.buffer_tokens) > 2 + seqlen

OverflowAtCapacity(b, seqlen) == Len(b.buffer_tokens) >= 1 + seqlen

Overflow(b, seqlen) == Len(b.buffer_tokens) > 1 + seqlen

\* lines 115-117: pop the last sample from the buffers
PopLast(b, toks) ==
  [sample_tokens |-> SliceDropLast(b.buffer_tokens, Len(toks)),
   sample_completitions |-> SliceDropLast(b.buffer_is_completition, Len(toks)),
   sample_lengths |-> SliceDropLast(b.buffer_lengths, 1)]

\* line 120
AssertEmissionOff(s) == TRUE

AssertEmission(s) ==
  /\ Len(s.sample_tokens) = Len(s.sample_completitions)
  /\ Len(s.sample_completitions) = Sum(s.sample_lengths)

\* lines 123-125
ResetBuffersEmpty(toks, flags) ==
  [buffer_tokens |-> <<>>,
   buffer_is_completition |-> <<>>,
   buffer_lengths |-> <<>>]

ResetBuffers(toks, flags) ==
  [buffer_tokens |-> toks,
   buffer_is_completition |-> flags,
   buffer_lengths |-> <<Len(toks)>>]

\* lines 128-140
PackedWindow(s, labels, positions, seqlen) ==
  [kind |-> "packed",
   input_ids |-> s.sample_tokens,
   label_mask |-> AsInts(BuildLabels(labels, s.sample_tokens, s.sample_completitions)),
   position_ids |-> BuildPositionIds(positions, s.sample_lengths, seqlen)]

\* lines 108-140: one sample through the packing branch.  b holds the three
\* buffers before the sample arrives.
PackSample(b, toks, flags, seqlen, labels, positions) ==
  LET b1 == AppendSample(b, toks, flags)
      s  == PopLast(b1, toks)
  IN IF ~Overflow(b1, seqlen)
       THEN [pc |-> "run", buffers |-> b1, fired |-> FALSE, emits |-> FALSE,
             sample_lengths |-> <<>>, out |-> Nothing]
     ELSE IF ~AssertEmission(s)
       THEN [pc |-> "AssertionError", buffers |-> b1, fired |-> TRUE, emits |-> FALSE,
             sample_lengths |-> s.sample_lengths, out |-> Nothing]
     ELSE [pc |-> "run", buffers |-> ResetBuffers(toks, flags), fired |-> TRUE,
           emits |-> TRUE, sample_lengths |-> s.sample_lengths,
           out |-> PackedWindow(s, labels, positions, seqlen)]

\* -------------------------------------------------- non-packing path
\* lines 146-148
PadAmountRem(n, chunks) == n % chunks

PadAmount(n, chunks) ==
  LET rem == n % chunks IN IF rem # 0 THEN chunks - rem ELSE 0

\* lines 144, 151, 158: input_mask is 1 over the sample, 0 over the padding
InputMaskAllOnes(n, padn) == Repeat(1, n + padn)

InputMask(n, padn) == Repeat(1, n) \o Repeat(0, padn)

\* lines 143-168: one sample through the alignment-padding branch
PadSample(toks, flags, chunks, labels) ==
  LET comp0  == BuildLabels(labels, toks, flags)
      pad    == PadAmount(Len(toks), chunks)
      extra  == IF chunks > 1 THEN 1 ELSE 0
      toks1  == toks \o Repeat(pad_token_id, pad + extra)
      comp1  == comp0 \o Repeat(FALSE, pad + extra)
      mask1  == InputMask(Len(toks), pad + extra)
  IN IF Len(toks1) # Len(mask1) \/ Len(mask1) # Len(comp1)
       THEN [pc |-> "AssertionError", tokens |-> toks1, is_completition |-> comp1,
             out |-> Nothing]
     ELSE [pc |-> "run", tokens |-> toks1, is_completition |-> comp1,
           out |-> [kind |-> "item",
                    input_ids |-> toks1,
                    input_mask |-> mask1,
                    label_mask |-> AsInts(comp1)]]

\* ------------------------------------------------------------ actions
OtherInit ==
  [pc |-> "constructed", it |-> 0, restarts |-> 0, pulls |-> 0,
   buffer_tokens |-> <<>>, buffer_is_completition |-> <<>>,
   buffer_lengths |-> <<>>, yielded |-> <<>>]

\* lines 39-89: the object after construction, __iter__ not yet called
Init ==
  /\ dataset \in Datasets
  /\ sequence_length \in SequenceLengths
  /\ pack_samples \in BOOLEAN
  /\ sp_ranks_size \in SpRanksSizes
  /\ sp_chunks = SpChunks(sp_ranks_size)
  /\ create_labels \in LabelPolicies
  /\ create_position_ids \in PositionPolicies
  /\ pc = "constructed"
  /\ it = 0 /\ restarts = 0 /\ pulls = 0
  /\ tokens = <<>> /\ is_completition = <<>>
  /\ buffer_tokens = <<>> /\ buffer_is_completition = <<>> /\ buffer_lengths = <<>>
  /\ sample_lengths = <<>>
  /\ num_samples = 0
  /\ out = Nothing
  /\ yielded = <<>>
  /\ pulled = <<>>
  /\ triggers = <<>>
  /\ other = OtherInit

\* lines 91-99: __iter__ is called, its locals are set up, the dataset is opened
Iter ==
  /\ pc = "constructed"
  /\ pc' = "run"
  /\ it' = 0
  /\ buffer_tokens' = IterLocals.buffer_tokens
  /\ buffer_is_completition' = IterLocals.buffer_is_completition
  /\ buffer_lengths' = IterLocals.buffer_lengths
  /\ num_samples' = IterLocals.num_samples
  /\ UNCHANGED <<config, restarts, pulls, tokens, is_completition, sample_lengths,
                 out, yielded, pulled, triggers, other>>

\* lines 99-169: one iteration of the for loop
Pull ==
  /\ pc = "run"
  /\ it < Len(dataset)
  /\ pulls < MaxPulls
  /\ LET sample == dataset[it + 1]
         b == [buffer_tokens |-> buffer_tokens,
               buffer_is_completition |-> buffer_is_completition,
               buffer_lengths |-> buffer_lengths]
     IN /\ it' = it + 1
        /\ pulls' = pulls + 1
        /\ pulled' = Append(pulled, sample)
        /\ IF pack_samples
             THEN LET r == PackSample(b, sample.tokens, sample.is_completition,
                                      sequence_length, create_labels, create_position_ids)
                  IN /\ pc' = r.pc
                     /\ tokens' = sample.tokens
                     /\ is_completition' = sample.is_completition
                     /\ buffer_tokens' = r.buffers.buffer_tokens
                     /\ buffer_is_completition' = r.buffers.buffer_is_completition
                     /\ buffer_lengths' = r.buffers.buffer_lengths
                     /\ sample_lengths' = IF r.fired THEN r.sample_lengths
                                          ELSE sample_lengths
                     /\ out' = r.out
                     /\ yielded' = IF r.emits THEN Append(yielded, r.out) ELSE yielded
                     /\ triggers' = IF r.emits THEN Append(triggers, pulls + 1)
                                    ELSE triggers
                     /\ UNCHANGED num_samples
             ELSE LET r == PadSample(sample.tokens, sample.is_completition,
                                     sp_chunks, create_labels)
                  IN /\ pc' = r.pc
                     /\ tokens' = r.tokens
                     /\ is_completition' = r.is_completition
                     /\ out' = r.out
                     /\ yielded' = IF r.pc = "run" THEN Append(yielded, r.out) ELSE yielded
                     /\ num_samples' = IF r.pc = "run" THEN num_samples + 1 ELSE num_samples
                     /\ UNCHANGED <<buffer_tokens, buffer_is_completition,
                                    buffer_lengths, sample_lengths, triggers>>
  /\ UNCHANGED <<config, restarts, other>>

\* lines 98-99 and 171-172: the for loop ends, the message is printed and
\* `while True` opens the dataset again
ReloopStops ==
  /\ pc = "run"
  /\ it = Len(dataset)
  /\ pc' = "StopIteration"
  /\ UNCHANGED <<config, it, restarts, pulls, tokens, is_completition, buffer_tokens,
                 buffer_is_completition, buffer_lengths, sample_lengths,
                 num_samples, out, yielded, pulled, triggers, other>>

ReloopResetsBuffers ==
  /\ pc = "run"
  /\ it = Len(dataset)
  /\ restarts < MaxRestarts
  /\ restarts' = restarts + 1
  /\ it' = 0
  /\ buffer_tokens' = <<>>
  /\ buffer_is_completition' = <<>>
  /\ buffer_lengths' = <<>>
  /\ UNCHANGED <<config, pc, pulls, tokens, is_completition, sample_lengths,
                 num_samples, out, yielded, pulled, triggers, other>>

Reloop ==
  /\ pc = "run"
  /\ it = Len(dataset)
  /\ restarts < MaxRestarts
  /\ restarts' = restarts + 1
  /\ it' = 0
  /\ UNCHANGED <<config, pc, pulls, tokens, is_completition, buffer_tokens,
                 buffer_is_completition, buffer_lengths, sample_lengths,
                 num_samples, out, yielded, pulled, triggers, other>>

Next == Iter \/ Pull \/ Reloop

Spec == Init /\ [][Next]_vars

\* ------------------------------------------- a second call of __iter__
\* lines 91-99, second call: fresh locals again
IterOther ==
  /\ other.pc = "constructed"
  /\ other' = [other EXCEPT !.pc = "run", !.it = 0,
                             !.buffer_tokens = IterLocals.buffer_tokens,
                             !.buffer_is_completition = IterLocals.buffer_is_completition,
                             !.buffer_lengths = IterLocals.buffer_lengths]
  /\ UNCHANGED <<config, locals>>

\* lines 99-140, second call
PullOther ==
  /\ other.pc = "run"
  /\ pack_samples
  /\ other.it < Len(dataset)
  /\ other.pulls < MaxPulls
  /\ LET sample == dataset[other.it + 1]
         b == [buffer_tokens |-> other.buffer_tokens,
               buffer_is_completition |-> other.buffer_is_completition,
               buffer_lengths |-> other.buffer_lengths]
         r == PackSample(b, sample.tokens, sample.is_completition,
                         sequence_length, create_labels, create_position_ids)
     IN other' = [other EXCEPT !.pc = r.pc, !.it = @ + 1, !.pulls = @ + 1,
                               !.buffer_tokens = r.buffers.buffer_tokens,
                               !.buffer_is_completition = r.buffers.buffer_is_completition,
                               !.buffer_lengths = r.buffers.buffer_lengths,
                               !.yielded = IF r.emits THEN Append(@, r.out) ELSE @]
  /\ UNCHANGED <<config, locals>>

\* lines 98-99 and 171-172, second call
ReloopOther ==
  /\ other.pc = "run"
  /\ other.it = Len(dataset)
  /\ other.restarts < MaxRestarts
  /\ other' = [other EXCEPT !.restarts = @ + 1, !.it = 0]
  /\ UNCHANGED <<config, locals>>

InitTwoRuns == Init /\ pack_samples

NextTwoRuns == Iter \/ Pull \/ Reloop \/ IterOther \/ PullOther \/ ReloopOther

SpecTwoRuns == InitTwoRuns /\ [][NextTwoRuns]_vars

\* ------------------------------------------------------------ claims
AllMatched(ds) ==
  \A i \in 1..Len(ds) : Len(ds[i].tokens) = Len(ds[i].is_completition)

MismatchedTokens ==
  UNION { {s.tokens[i] : i \in 1..Len(s.tokens)} :
          s \in {c \in Catalog : Len(c.tokens) # Len(c.is_completition)} }

RECURSIVE ConcatTokens(_)
ConcatTokens(samples) ==
  IF samples = <<>> THEN <<>>
  ELSE Head(samples).tokens \o ConcatTokens(Tail(samples))

\* the last n samples pulled, in pull order
LastPulled(n) == SubSeq(pulled, Len(pulled) - n + 1, Len(pulled))

\* C1: in packing mode every emitted window has at most sequence_length + 1
\* input_ids, whatever the lengths of the samples.
C1_WindowWithinCapacity ==
  (pack_samples /\ out.kind = "packed") => Len(out.input_ids) <= sequence_length + 1

\* C2: in packing mode the assertion at emission never fails when every
\* sample of the stream has as many completion flags as tokens.
C2_EmissionAssertNeverFails ==
  (pack_samples /\ AllMatched(dataset)) => pc # "AssertionError"

\* C3: in packing mode, when every sample has as many completion flags as
\* tokens, the three buffers agree in every state of the loop:
\* sum(buffer_lengths) == len(buffer_tokens) == len(buffer_is_completition).
C3_BufferInvariant ==
  (pack_samples /\ AllMatched(dataset)) =>
    /\ Sum(buffer_lengths) = Len(buffer_tokens)
    /\ Len(buffer_tokens) = Len(buffer_is_completition)

\* a reset after a re-loop has left a non-empty sample in the buffer
C3_Witness ==
  /\ pack_samples /\ AllMatched(dataset) /\ pc = "run"
  /\ restarts >= 1 /\ it >= 1
  /\ out.kind = "packed"
  /\ Len(buffer_lengths) = 1 /\ Len(buffer_tokens) > 0

C5_NoWindowFromMismatchedSample ==
  (pack_samples /\ out.kind = "packed") =>
    \A i \in 1..Len(out.input_ids) : out.input_ids[i] \notin MismatchedTokens

\* tokens delivered by the first k records of a pass
RECURSIVE PassTokens(_)
PassTokens(k) == IF k = 0 THEN 0 ELSE Len(dataset[k].tokens) + PassTokens(k - 1)

\* C6: the step on which the exhausted dataset is re-looped leaves
\* buffer_tokens, buffer_is_completition and buffer_lengths as they were, so
\* the first pull of the next pass finds the buffer of the last pull.
C6_ReloopKeepsBuffer ==
  [][ (pc = "run" /\ it = Len(dataset) /\ restarts' # restarts)
      => ( /\ it' = 0
           /\ buffer_tokens' = buffer_tokens
           /\ buffer_is_completition' = buffer_is_completition
           /\ buffer_lengths' = buffer_lengths ) ]_vars

\* a window emitted in a later pass that holds the samples pulled so far in
\* that pass and, before them, samples of the pass before
C6_Witness ==
  /\ pack_samples /\ pc = "run"
  /\ restarts >= 1 /\ it >= 2
  /\ out.kind = "packed"
  /\ PassTokens(it - 1) > 0
  /\ Len(out.input_ids) > PassTokens(it - 1)

ClaimedPaddedLen(L, ranks) ==
  LET chunks == IF ranks > 1 THEN 2 * ranks ELSE 1
      mults == {m \in 0..(L + chunks) : m % chunks = 0 /\ m >= L}
      least == CHOOSE m \in mults : \A k \in mults : m <= k
  IN least + (IF chunks > 1 THEN 1 ELSE 0)

\* C8: in non-packing mode input_ids, input_mask and label_mask of every
\* emitted item have the same length: the smallest multiple of sp_chunks
\* >= the sample's length, plus one when sp_chunks > 1.
C8_PaddedLength ==
  (~pack_samples /\ out.kind = "item") =>
    LET L == Len(pulled[Len(pulled)].tokens)
    IN /\ Len(out.input_ids) = ClaimedPaddedLen(L, sp_ranks_size)
       /\ Len(out.input_mask) = ClaimedPaddedLen(L, sp_ranks_size)
       /\ Len(out.label_mask) = ClaimedPaddedLen(L, sp_ranks_size)

\* a 5-token sample with sp_ranks_size = 2 was padded to 9
C8_Witness ==
  /\ ~pack_samples /\ out.kind = "item" /\ pc = "run"
  /\ sp_ranks_size = 2
  /\ Len(pulled[Len(pulled)].tokens) = 5
  /\ Len(out.input_ids) = 9

\* C9: in packing mode input_ids, label_mask and position_ids of every
\* emitted window have the same length and label_mask holds only 0 and 1.
C9_WindowFieldsAgree ==
  (pack_samples /\ out.kind = "packed") =>
    /\ Len(out.input_ids) = Len(out.label_mask)
    /\ Len(out.label_mask) = Len(out.position_ids)
    /\ \A i \in 1..Len(out.label_mask) : out.label_mask[i] \in {0, 1}

\* a non-empty window shorter than sequence_length was emitted
C9_Witness ==
  /\ pack_samples /\ out.kind = "packed" /\ pc = "run"
  /\ Len(out.input_ids) > 0
  /\ Len(out.input_ids) < sequence_length

C11_EmitIffOverCapacity ==
  [][ (pack_samples /\ AllMatched(dataset) /\ pc = "run" /\ pulls' = pulls + 1)
      =>
      LET arriving == pulled'[Len(pulled')]
          after == Len(buffer_tokens) + Len(arriving.tokens)
      IN /\ (out'.kind = "packed") <=> (after > sequence_length + 1)
         /\ (yielded' # yielded) <=> (after > sequence_length + 1)
         /\ Len(yielded') <= Len(yielded) + 1
         /\ (after <= sequence_length + 1) =>
              /\ buffer_tokens' = buffer_tokens \o arriving.tokens
              /\ buffer_is_completition' = buffer_is_completition \o arriving.is_completition
              /\ buffer_lengths' = Append(buffer_lengths, Len(arriving.tokens)) ]_vars

\* C12: in packing mode no emitted window consists of exactly one sample
\* that is longer than sequence_length + 1.
C12_LongSampleNeverAlone ==
  (pack_samples /\ out.kind = "packed") =>
    ~(Len(sample_lengths) = 1 /\ sample_lengths[1] > sequence_length + 1)

\* C13: in packing mode, when the first sample of the run is longer than
\* sequence_length + 1, its pull fires the overflow check and emits an empty
\* window (no input_ids, no label_mask entries, empty sample_lengths) and
\* leaves the sample as the only content of the buffer.
C13_LongFirstSampleEmitsEmptyWindow ==
  [][ ( /\ pack_samples /\ pc = "run" /\ pulls = 0 /\ pulls' = 1
        /\ Len(pulled'[1].tokens) > sequence_length + 1 )
      =>
      ( /\ pc' = "run"
        /\ out'.kind = "packed"
        /\ yielded' = <<out'>>
        /\ out'.input_ids = <<>>
        /\ out'.label_mask = <<>>
        /\ sample_lengths' = <<>>
        /\ buffer_tokens' = pulled'[1].tokens
        /\ buffer_is_completition' = pulled'[1].is_completition
        /\ buffer_lengths' = <<Len(pulled'[1].tokens)>> ) ]_vars

\* the first pull delivered a 5-token sample and emitted the empty window
C13_Witness ==
  /\ pack_samples /\ pc = "run" /\ pulls = 1
  /\ Len(pulled[1].tokens) = 5
  /\ yielded = <<out>>
  /\ out.kind = "packed" /\ out.input_ids = <<>>
  /\ buffer_lengths = <<5>>

\* C14: in non-packing mode, for a sample of length L, input_mask is 1 at
\* the first L positions and 0 at the padded ones, input_ids are the sample's
\* tokens followed by pad tokens, and label_mask is 0 at every padded position.
C14_PaddingContent ==
  (~pack_samples /\ out.kind = "item") =>
    LET sample == pulled[Len(pulled)]
        L == Len(sample.tokens)
    IN /\ Len(out.input_ids) >= L
       /\ \A i \in 1..Len(out.input_mask) :
            out.input_mask[i] = (IF i <= L THEN 1 ELSE 0)
       /\ \A i \in 1..Len(out.input_ids) :
            out.input_ids[i] = (IF i <= L THEN sample.tokens[i] ELSE pad_token_id)
       /\ \A i \in (L + 1)..Len(out.label_mask) : out.label_mask[i] = 0

\* a 5-token sample padded to 9: positions 6..9 are padding
C14_Witness ==
  /\ ~pack_samples /\ out.kind = "item" /\ pc = "run"
  /\ Len(pulled[Len(pulled)].tokens) = 5
  /\ Len(out.input_ids) = 9
  /\ out.input_mask[5] = 1 /\ out.input_mask[6] = 0
  /\ out.input_ids[5] = 35 /\ out.input_ids[9] = pad_token_id
  /\ out.label_mask[5] = 1 /\ out.label_mask[6] = 0

RECURSIVE ConcatIds(_)
ConcatIds(windows) ==
  IF windows = <<>> THEN <<>>
  ELSE Head(windows).input_ids \o ConcatIds(Tail(windows))

IsPrefix(p, xs) == Len(p) <= Len(xs) /\ SubSeq(xs, 1, Len(p)) = p

\* C15: in packing mode, after any number of pulls, the input_ids of the
\* windows emitted so far followed by buffer_tokens are the tokens of the
\* samples pulled so far, in pull order, and every window ends where a
\* sample ends.
C15_TokenConservation ==
  pack_samples =>
    /\ ConcatIds(yielded) \o buffer_tokens = ConcatTokens(pulled)
    /\ \A k \in 1..Len(yielded) :
         \E j \in 0..Len(pulled) :
           ConcatIds(SubSeq(yielded, 1, k)) = ConcatTokens(SubSeq(pulled, 1, j))

\* two non-empty windows were emitted, the second after a re-loop, and a
\* sample waits in the buffer
C15_Witness ==
  /\ pack_samples /\ pc = "run"
  /\ restarts >= 1
  /\ Len(yielded) >= 2
  /\ yielded[1].input_ids # <<>> /\ yielded[2].input_ids # <<>>
  /\ buffer_tokens # <<>>

\* C16: in packing mode, once a pulled sample is processed, the buffer is
\* within sequence_length + 1 tokens or holds exactly one sample.
C16_OverCapacityOnlyAlone ==
  (pack_samples /\ pc = "run") =>
    \/ Len(buffer_tokens) <= sequence_length + 1
    \/ Len(buffer_lengths) = 1

\* after several pulls the buffer holds one sample that is over capacity
C16_Witness ==
  /\ pack_samples /\ pc = "run" /\ pulls >= 2
  /\ Len(buffer_lengths) = 1
  /\ Len(buffer_tokens) > sequence_length + 1

\* C17: every emitted window was closed by a sample that did not fit:
\* len(window) + len(that sample) > sequence_length + 1, and that sample
\* opens what follows the window (the next window, or the buffer while the
\* next window is not emitted yet).
C17_GreedyPacking ==
  pack_samples =>
    \A k \in 1..Len(yielded) :
      LET trigger == pulled[triggers[k]].tokens
      IN /\ Len(yielded[k].input_ids) + Len(trigger) > sequence_length + 1
         /\ IF k < Len(yielded)
              THEN IsPrefix(trigger, yielded[k + 1].input_ids)
              ELSE IsPrefix(trigger, buffer_tokens)

\* two windows were emitted; the second one starts with the sample that
\* closed the first and holds more than that sample
C17_Witness ==
  /\ pack_samples /\ pc = "run"
  /\ Len(yielded) = 2
  /\ yielded[1].input_ids # <<>>
  /\ Len(yielded[2].input_ids) > Len(pulled[triggers[1]].tokens)

\* ------------------------------------------- the loop run without end
\* The packing loop as the consumer drives it forever.  The history
\* variables (pulls, restarts, pulled, yielded, triggers) are not kept, so
\* that the state space is that of the program's own variables.

\* lines 99-140: one iteration of the for loop, packing mode
PullLive ==
  /\ pc = "run"
  /\ pack_samples
  /\ it < Len(dataset)
  /\ LET sample == dataset[it + 1]
         b == [buffer_tokens |-> buffer_tokens,
               buffer_is_completition |-> buffer_is_completition,
               buffer_lengths |-> buffer_lengths]
         r == PackSample(b, sample.tokens, sample.is_completition,
                         sequence_length, create_labels, create_position_ids)
     IN /\ it' = it + 1
        /\ pc' = r.pc
        /\ tokens' = sample.tokens
        /\ is_completition' = sample.is_completition
        /\ buffer_tokens' = r.buffers.buffer_tokens
        /\ buffer_is_completition' = r.buffers.buffer_is_completition
        /\ buffer_lengths' = r.buffers.buffer_lengths
        /\ sample_lengths' = IF r.fired THEN r.sample_lengths ELSE sample_lengths
        /\ out' = r.out
  /\ UNCHANGED <<config, restarts, pulls, num_samples, yielded, pulled, triggers, other>>

\* lines 98-99 and 171-172: the dataset is re-looped
ReloopLive ==
  /\ pc = "run"
  /\ it = Len(dataset)
  /\ it' = 0
  /\ UNCHANGED <<config, pc, restarts, pulls, tokens, is_completition, buffer_tokens,
                 buffer_is_completition, buffer_lengths, sample_lengths,
                 num_samples, out, yielded, pulled, triggers, other>>

HasTokens(ds) == \E i \in 1..Len(ds) : Len(ds[i].tokens) >= 1

\* packing mode over a dataset that holds at least one token: a dataset of
\* empty samples only never overflows and buffer_lengths grows without bound
InitLive == Init /\ pack_samples /\ HasTokens(dataset)

NextLive == Iter \/ PullLive \/ ReloopLive

\* the generator is resumed by its consumer again and again: whenever the
\* loop can take a step it eventually takes one
SpecLive == InitLive /\ [][NextLive]_vars /\ WF_vars(NextLive)

\* C18: in packing mode, when the dataset is well formed and holds a sample
\* of length >= 1, windows are emitted again and again: a pull that emits a
\* window always lies ahead.
C18_WindowsKeepComing ==
  []<>( (AllMatched(dataset) /\ HasTokens(dataset)) => out.kind = "packed" )

====
